---- MODULE Spec2Model ----
(***************************************************************************)
(* Model of the download job manager of src/app.py: DownloadManager       *)
(* (registry, executor, worker, progress hook, snapshot reads) and the    *)
(* two HTTP handlers that drive it.                                        *)
(*                                                                         *)
(* Threads.  HTTPServer.serve_forever handles one request at a time on     *)
(* the main thread, so handle_download and get_download_status never       *)
(* overlap each other; the ThreadPoolExecutor workers run concurrently     *)
(* with the main thread and with one another.  No lock exists anywhere in  *)
(* DownloadManager, so a thread switch can fall between any two            *)
(* statements of a worker: every store into a job dict is a step of its    *)
(* own.                                                                    *)
(*                                                                         *)
(* Objects.  A job record is a Python dict; heap[h] is the dict allocated  *)
(* by the h-th start_download call and h is its identity.  The registry    *)
(* self.downloads maps IDs to such references.                             *)
(***************************************************************************)
EXTENDS Integers, Sequences, FiniteSets, Bags, TLC

MAX_WORKERS == 4
\* "max_concurrent_downloads": 2 of the default settings.
DefaultMaxConcurrent == 2

\* Bounds of the exploration.
MaxJobs == 2
MaxEvents == 1
MaxClock == 1
\* The longest filename of the requests that look at the safe filename.
MaxNameLen == 3

\* Python's None in an optional field, and a present value.
None == <<>>
Some(x) == <<x>>

\* Inputs of POST /api/download.  "" is the missing or empty field.
Urls == {"", "v"}
\* The urls of the runs that look at the order of the registry.
ListingUrls == {"v", "w"}
FormatIds == {"", "18"}
Filenames == {<<"c", "/">>}
\* The filenames of the runs that look at the request itself: the same, and
\* the empty filename ("filename": "" in the request body).
\* Filenames of up to MaxNameLen characters: a letter, a digit, the space,
\* the period, the hyphen and the path separator.
NameChars == {"a", "1", " ", ".", "-", "/"}
NamedFilenames == UNION {[1..n -> NameChars] : n \in 0..MaxNameLen}
RequestFilenames == {<<>>, <<"c", "/">>}

\* An ID that no start_download call produces (no url/format prefix).
UnknownId == "ffffffff"

\* Messages carried by the exceptions the engine or mkdir raise; str(e) of
\* an exception constructed without arguments is the empty string.
ExcMessages == {"failed", ""}

\* Raw progress events passed by the engine to the hook.  The totals are
\* powers of two, so the float quotient downloaded / total is exact.
Event(st, dl, tb, est, sp, eta) ==
    [status |-> st, downloaded_bytes |-> dl, total_bytes |-> tb,
     total_bytes_estimate |-> est, speed |-> sp, eta |-> eta]
NoEvent == Event("", 0, None, None, None, None)
Events ==
    { Event("downloading", 1, Some(2), None, Some(5), Some(3)),
      Event("downloading", 2, None, None, None, None),
      Event("finished", 2, Some(2), None, None, None) }

\* The events of the runs that look at the hook's arithmetic: totals known,
\* estimated, absent and zero, an estimate below the bytes already received,
\* a negative total beside an estimate, and quotients of 85 and 88.  For each of them (downloaded / total) * 100 in
\* floating point is the exact integer quotient.
ProgressEvents ==
    { Event("downloading", 1, Some(4), None, Some(5), Some(3)),
      Event("downloading", 2, None, None, None, None),
      Event("downloading", 2, Some(0), None, None, None),
      Event("downloading", 2, None, Some(25), None, None),
      Event("downloading", 3, None, Some(2), None, None),
      Event("downloading", 1, Some(-1), Some(4), None, None),
      Event("downloading", 17, Some(20), None, Some(5), None),
      Event("downloading", 22, Some(25), None, None, Some(3)),
      Event("finished", 22, Some(25), None, None, None),
      Event("error", 0, None, None, None, None) }

\* Directories.  DefaultDir is Path.home() / "Downloads" / "MediaDownloader";
\* mkdir raises for UnusableDir (a path below a file, or without permission);
\* NoDir is self.download_dir before _init has run.
DefaultDir == "MediaDownloader"
UnusableDir == "unusable"
NoDir == ""
Dirs == {DefaultDir, "d1", UnusableDir}

\* A settings object (the body of POST /api/settings, and what settings.json
\* holds after it was written): download_path may be missing.
Settings(download_path, max_concurrent_downloads) ==
    [download_path |-> download_path,
     max_concurrent_downloads |-> max_concurrent_downloads]
SettingsBodies ==
    { Settings(Some("d1"), 1), Settings(None, DefaultMaxConcurrent),
      Settings(Some(UnusableDir), DefaultMaxConcurrent) }

\* settings.json on disk: absent, not JSON, or a settings object as written
\* by json.dump (content is read only when state is "json").
File(state, content) == [state |-> state, content |-> content]
Missing == File("missing", Settings(None, DefaultMaxConcurrent))
Corrupt == File("corrupt", Settings(None, DefaultMaxConcurrent))
Written(settings) == File("json", settings)
SettingsFiles == {Missing, Corrupt} \cup {Written(s) : s \in SettingsBodies}

VARIABLES
    now,         \* the system clock read by time.time() and datetime.now()
    heap,        \* the job dicts, by identity
    downloads,   \* self.downloads: insertion-ordered dict, ID -> dict
    work_queue,  \* the executor's queue of submitted _download_worker calls
    threads,     \* the executor's busy worker threads: a bag of their frames
    handler,     \* the request being handled on the main thread
    response,    \* the status code sent for the last request
    returned,    \* the IDs returned by start_download, in call order
    runs,        \* runs[h]: worker runs that took dict h as their `download`
    emitted,     \* progress events the engine has emitted so far
    download_dir,   \* self.download_dir
    settings_file,  \* what the file settings.json holds on disk
    submit_dir      \* submit_dir[h]: self.download_dir when dict h was created

vars == <<now, heap, downloads, work_queue, threads, handler, response,
          returned, runs, emitted, download_dir, settings_file, submit_dir>>

\* The settings: the active directory and the file on disk.
settings_vars == <<download_dir, settings_file>>

----------------------------------------------------------------------------
\* The insertion-ordered dict self.downloads.

HasKey(d, k) == \E i \in 1..Len(d) : d[i].key = k
IndexOf(d, k) == CHOOSE i \in 1..Len(d) : d[i].key = k
DictGet(d, k) == d[IndexOf(d, k)].ref
DictSet(d, k, r) ==
    IF HasKey(d, k) THEN [d EXCEPT ![IndexOf(d, k)].ref = r]
    ELSE Append(d, [key |-> k, ref |-> r])
Keys(d) == {d[i].key : i \in 1..Len(d)}

\* hashlib.md5(f"{url}{format_id}{time.time()}".encode()).hexdigest()[:8]:
\* the ID is a function of the concatenated text alone.  Distinct texts are
\* given distinct digests here (no truncation collision is assumed among the
\* few texts of the model), equal texts give equal digests.
Md5Hex8(text) == text
MakeId(url, format_id, t) == Md5Hex8(url \o format_id \o ToString(t))

\* The dict literal of start_download.
NewRecord(download_id, url, format_id, filename, t) ==
    [id |-> download_id, url |-> url, format_id |-> format_id,
     filename |-> filename, status |-> "queued", progress |-> 0,
     started_at |-> t, completed_at |-> None, error |-> None,
     filepath |-> None, downloaded_bytes |-> 0, total_bytes |-> Some(0),
     speed |-> Some(0), eta |-> None]

\* c.isalnum() or c in (' ', '-', '_', '.'), over the characters of the model.
\* A variant of the filter of line 145 that lets the path separator through.
IsAllowedCharOrSeparator(c) ==
    c \in {"a", "b", "c", "0", "1", " ", "-", "_", ".", "/"}

IsAllowedChar(c) == c \in {"a", "b", "c", "0", "1", " ", "-", "_", "."}

RECURSIVE RStrip(_)
RStrip(s) ==
    IF s = <<>> THEN s
    ELSE IF s[Len(s)] = " " THEN RStrip(SubSeq(s, 1, Len(s) - 1)) ELSE s

\* ''.join(c for c in filename if allowed).rstrip(), else download_<timestamp>.
SafeFilename(filename, t) ==
    LET kept == RStrip(SelectSeq(filename, IsAllowedChar))
    IN  IF kept = <<>> THEN <<"download_", ToString(t)>> ELSE kept

\* The components of a path string: split at the separator, empty components
\* dropped (pathlib's parsing of the right operand of `/`).
RECURSIVE Components(_, _)
Components(s, cur) ==
    LET done == IF cur = <<>> THEN <<>> ELSE <<cur>>
    IN  IF s = <<>> THEN done
        ELSE IF Head(s) = "/" THEN done \o Components(Tail(s), <<>>)
        ELSE Components(Tail(s), Append(cur, Head(s)))

\* Line 155: self.download_dir / f"{safe_filename}.%(ext)s", as the sequence
\* of the path's components.  A right operand that starts with the separator
\* is absolute and replaces the directory.
outtmpl(dir, safe_filename) ==
    LET name == safe_filename \o <<".", "%(ext)s">>
    IN  IF Head(name) = "/"
        THEN <<<<"/">>>> \o Components(name, <<>>)
        ELSE <<<<dir>>>> \o Components(name, <<>>)

Min(a, b) == IF a < b THEN a ELSE b

\* total = d.get('total_bytes') or d.get('total_bytes_estimate')
EffectiveTotal(d) ==
    IF d.total_bytes # None /\ d.total_bytes[1] # 0 THEN d.total_bytes
    ELSE d.total_bytes_estimate

\* A variant of the unknown-total branch without the cap at 90.
HookProgressUncapped(d, previous) ==
    LET total == EffectiveTotal(d)
    IN  IF total # None /\ total[1] > 0
        THEN (d.downloaded_bytes * 100) \div total[1]
        ELSE previous + 10

\* The value the hook stores in download['progress'].
HookProgress(d, previous) ==
    LET total == EffectiveTotal(d)
    IN  IF total # None /\ total[1] > 0
        THEN (d.downloaded_bytes * 100) \div total[1]
        ELSE Min(previous + 10, 90)

----------------------------------------------------------------------------
\* The frame (local variables and position) of a thread that runs
\* _download_worker.  The executor's threads are interchangeable, so the
\* busy ones are kept as a bag of frames; the others are idle.
Frame(download_id, download, safe_filename, outtmpl_dir) ==
    [pc |-> "l170", download_id |-> download_id, download |-> download,
     safe_filename |-> safe_filename, outtmpl_dir |-> outtmpl_dir,
     e |-> "", d |-> NoEvent, hook_download |-> 0]

NoRequest == [pc |-> "idle", download_id |-> "", download |-> 0]

\* get_download's default {} is a fresh empty dict, not a job dict.
EmptyDict == -1

\* No response sent yet for the request at hand.
NoResponse == 0

Init ==
    /\ now = 0
    /\ heap = <<>>
    /\ downloads = <<>>
    /\ work_queue = <<>>
    /\ threads = EmptyBag
    /\ handler = NoRequest
    /\ response = NoResponse
    /\ returned = <<>>
    /\ runs = <<>>
    /\ emitted = 0
    /\ download_dir = DefaultDir
    /\ settings_file = Missing
    /\ submit_dir = <<>>

\* A read of the system clock (time.time(), datetime.now()): the value read
\* is t, not less than the last value read; two reads may see the same value.
ReadClock(t) ==
    /\ t \in now..MaxClock
    /\ now' = t

----------------------------------------------------------------------------
\* POST /api/download: handle_download and the start_download it calls.

\* A variant of the submission that waits until a worker thread is free.
start_download_when_free(url, format_id, filename, t) ==
    LET download_id == MakeId(url, format_id, t)
        ref == Len(heap) + 1
    IN  /\ BagCardinality(threads) < MAX_WORKERS
        /\ heap' = Append(heap,
                     NewRecord(download_id, url, format_id, filename, t))
        /\ downloads' = DictSet(downloads, download_id, ref)
        /\ work_queue' = Append(work_queue, download_id)
        /\ returned' = Append(returned, download_id)
        /\ runs' = Append(runs, 0)
        /\ submit_dir' = Append(submit_dir, download_dir)

\* Lines 112-134.  time.time() of line 112 and datetime.now() of line 121
\* are a few instructions apart and are taken as one reading t of the clock.
start_download(url, format_id, filename, t) ==
    LET download_id == MakeId(url, format_id, t)
        ref == Len(heap) + 1
    IN  /\ heap' = Append(heap,
                     NewRecord(download_id, url, format_id, filename, t))
        /\ downloads' = DictSet(downloads, download_id, ref)
        /\ work_queue' = Append(work_queue, download_id)
        /\ returned' = Append(returned, download_id)
        /\ runs' = Append(runs, 0)
        /\ submit_dir' = Append(submit_dir, download_dir)

\* A variant of the check of line 1840 that tests the url alone.
handle_download_url_only(url, format_id, filename) ==
    /\ handler.pc = "idle"
    /\ IF url = ""
       THEN /\ response' = 400
            /\ UNCHANGED <<now, heap, downloads, work_queue, returned, runs,
                           submit_dir>>
       ELSE /\ \E t \in now..MaxClock :
                 ReadClock(t) /\ start_download(url, format_id, filename, t)
            /\ response' = 200
    /\ UNCHANGED <<emitted, threads, handler>>
    /\ UNCHANGED settings_vars

\* Lines 1836-1851.
handle_download(url, format_id, filename) ==
    /\ handler.pc = "idle"
    /\ IF url = "" \/ format_id = ""
       THEN /\ response' = 400
            /\ UNCHANGED <<now, heap, downloads, work_queue, returned, runs,
                           submit_dir>>
       ELSE /\ \E t \in now..MaxClock :
                 ReadClock(t) /\ start_download(url, format_id, filename, t)
            /\ response' = 200
    /\ UNCHANGED <<emitted, threads, handler>>
    /\ UNCHANGED settings_vars

----------------------------------------------------------------------------
\* _download_worker, run by a worker thread of the executor.  A statement
\* that touches nothing shared is taken together with the store before it.

Store(h, field, value) == heap' = [heap EXCEPT ![h][field] = value]

\* The thread with frame f moves on with frame g, or returns (Done).
Done == [pc |-> "idle"]
SetLocal(f, g) ==
    threads' = IF g = Done THEN threads (-) SetToBag({f})
               ELSE (threads (-) SetToBag({f})) (+) SetToBag({g})

\* A variant of the executor that starts a thread for every waiting task.
WorkerStartUnbounded ==
    /\ work_queue # <<>>
    /\ work_queue' = Tail(work_queue)
    /\ \E t \in now..MaxClock :
         LET download_id == Head(work_queue)
             h == DictGet(downloads, download_id)
         IN  /\ ReadClock(t)
             /\ Store(h, "status", "downloading")
             /\ runs' = [runs EXCEPT ![h] = @ + 1]
             /\ threads' = threads (+) SetToBag({
                    Frame(download_id, h, SafeFilename(heap[h].filename, t),
                          download_dir)})
    /\ UNCHANGED <<emitted, downloads, handler, response, returned>>
    /\ UNCHANGED <<settings_vars, submit_dir>>

\* A variant of the executor that takes the newest waiting task first.
WorkerStartNewestFirst ==
    /\ BagCardinality(threads) < MAX_WORKERS
    /\ work_queue # <<>>
    /\ work_queue' = SubSeq(work_queue, 1, Len(work_queue) - 1)
    /\ \E t \in now..MaxClock :
         LET download_id == work_queue[Len(work_queue)]
             h == DictGet(downloads, download_id)
         IN  /\ ReadClock(t)
             /\ Store(h, "status", "downloading")
             /\ runs' = [runs EXCEPT ![h] = @ + 1]
             /\ threads' = threads (+) SetToBag({
                    Frame(download_id, h, SafeFilename(heap[h].filename, t),
                          download_dir)})
    /\ UNCHANGED <<emitted, downloads, handler, response, returned>>
    /\ UNCHANGED <<settings_vars, submit_dir>>

\* An idle thread takes the oldest task.  Lines 138-167: `download` is
\* bound, status becomes 'downloading', the safe filename is derived and the
\* output template is built from self.download_dir (line 155).
WorkerStart ==
    /\ BagCardinality(threads) < MAX_WORKERS
    /\ work_queue # <<>>
    /\ work_queue' = Tail(work_queue)
    /\ \E t \in now..MaxClock :
         LET download_id == Head(work_queue)
             h == DictGet(downloads, download_id)
         IN  /\ ReadClock(t)
             /\ Store(h, "status", "downloading")
             /\ runs' = [runs EXCEPT ![h] = @ + 1]
             /\ threads' = threads (+) SetToBag({
                    Frame(download_id, h, SafeFilename(heap[h].filename, t),
                          download_dir)})
    /\ UNCHANGED <<emitted, downloads, handler, response, returned>>
    /\ UNCHANGED <<settings_vars, submit_dir>>

\* Lines 192-201: the hook is called with the event d.  It looks the dict up
\* again by ID and stores the progress.
\* A variant of the hook without the test of line 192: an event of any
\* status updates the dict.
hook_any_status(f, d) ==
    /\ f.pc = "l170"
    /\ emitted' = emitted + 1
    /\ LET h == DictGet(downloads, f.download_id)
       IN  /\ Store(h, "progress", HookProgress(d, heap[h].progress))
           /\ SetLocal(f, [f EXCEPT !.pc = "l203", !.d = d,
                                    !.hook_download = h])
    /\ UNCHANGED <<now, downloads, work_queue, handler, response, returned,
                   runs>>
    /\ UNCHANGED <<settings_vars, submit_dir>>

hook(f, d) ==
    /\ f.pc = "l170"
    /\ emitted' = emitted + 1
    /\ IF d.status = "downloading"
       THEN LET h == DictGet(downloads, f.download_id)
            IN  /\ Store(h, "progress", HookProgress(d, heap[h].progress))
                /\ SetLocal(f, [f EXCEPT !.pc = "l203", !.d = d,
                                         !.hook_download = h])
       ELSE UNCHANGED <<heap, threads>>
    /\ UNCHANGED <<now, downloads, work_queue, handler, response, returned,
                   runs>>
    /\ UNCHANGED <<settings_vars, submit_dir>>

\* The engine, inside ydl.download, calls the hook: at most MaxEvents times
\* in all, or once more in the runs that look at the hook's arithmetic.
HookCall(f, d) == emitted < MaxEvents /\ hook(f, d)
HookCallProgress(f, d) == emitted < MaxEvents + 1 /\ hook(f, d)

\* One of the stores of lines 203-206.
HookStore(f, line, next, field, value) ==
    /\ f.pc = line
    /\ Store(f.hook_download, field, value)
    /\ SetLocal(f, IF next = "l170"
                   THEN [f EXCEPT !.pc = next, !.d = NoEvent,
                                  !.hook_download = 0]
                   ELSE [f EXCEPT !.pc = next])
    /\ UNCHANGED <<now, emitted, downloads, work_queue, handler, response,
                   returned, runs>>
    /\ UNCHANGED <<settings_vars, submit_dir>>

HookDownloaded(f) ==
    HookStore(f, "l203", "l204", "downloaded_bytes", f.d.downloaded_bytes)
HookTotal(f) ==
    HookStore(f, "l204", "l205", "total_bytes", EffectiveTotal(f.d))
HookSpeed(f) == HookStore(f, "l205", "l206", "speed", f.d.speed)
HookEta(f) == HookStore(f, "l206", "l170", "eta", f.d.eta)

\* One store of the worker into its `download`.
WorkerStore(f, line, next, field, value) ==
    /\ f.pc = line
    /\ Store(f.download, field, value)
    /\ SetLocal(f, IF next = "idle" THEN Done ELSE [f EXCEPT !.pc = next])
    /\ UNCHANGED <<emitted, downloads, work_queue, handler, response,
                   returned, runs>>
    /\ UNCHANGED <<settings_vars, submit_dir>>

\* ydl.download returns; lines 173-177: the glob over self.download_dir, as
\* it is now, finds a file and filepath is stored, or it finds none.
EngineReturn(f, found) ==
    /\ f.pc = "l170"
    /\ IF found
       THEN Store(f.download, "filepath",
                  Some(<<download_dir>> \o f.safe_filename))
       ELSE UNCHANGED heap
    /\ SetLocal(f, [f EXCEPT !.pc = "l180"])
    /\ UNCHANGED <<now, emitted, downloads, work_queue, handler, response,
                   returned, runs>>
    /\ UNCHANGED <<settings_vars, submit_dir>>

\* Lines 180-182.
WorkerCompleted(f) ==
    WorkerStore(f, "l180", "l181", "status", "completed") /\ UNCHANGED now
WorkerProgress100(f) ==
    WorkerStore(f, "l181", "l182", "progress", 100) /\ UNCHANGED now
WorkerCompletedAt(f) ==
    \E t \in now..MaxClock :
       ReadClock(t) /\ WorkerStore(f, "l182", "idle", "completed_at", Some(t))

\* A variant of the except clause that marks every running download failed.
EngineRaiseMarksAll(f, msg) ==
    /\ f.pc = "l170"
    /\ heap' = [h \in DOMAIN heap |->
                   IF heap[h].status = "downloading"
                   THEN [heap[h] EXCEPT !.status = "error"] ELSE heap[h]]
    /\ SetLocal(f, [f EXCEPT !.pc = "l186", !.e = msg])
    /\ UNCHANGED <<now, emitted, downloads, work_queue, handler, response,
                   returned, runs>>
    /\ UNCHANGED <<settings_vars, submit_dir>>

\* A variant without the except clause: the exception leaves the task and
\* the executor keeps it in the task's future.
EngineRaiseUncaught(f, msg) ==
    /\ f.pc = "l170"
    /\ SetLocal(f, Done)
    /\ UNCHANGED <<now, emitted, heap, downloads, work_queue, handler,
                   response, returned, runs>>
    /\ UNCHANGED <<settings_vars, submit_dir>>

\* mkdir (line 150) or ydl.download (line 170, or a hook inside it) raises
\* an Exception whose text is msg; line 185 of the except clause.
EngineRaise(f, msg) ==
    /\ f.pc = "l170"
    /\ Store(f.download, "status", "error")
    /\ SetLocal(f, [f EXCEPT !.pc = "l186", !.e = msg])
    /\ UNCHANGED <<now, emitted, downloads, work_queue, handler, response,
                   returned, runs>>
    /\ UNCHANGED <<settings_vars, submit_dir>>

\* Lines 186-187.
WorkerErrorMessage(f) ==
    WorkerStore(f, "l186", "l187", "error", Some(f.e)) /\ UNCHANGED now
WorkerErrorAt(f) ==
    \E t \in now..MaxClock :
       ReadClock(t) /\ WorkerStore(f, "l187", "idle", "completed_at", Some(t))

----------------------------------------------------------------------------
\* The settings: load_settings at construction, save_settings from
\* POST /api/settings.

\* Lines 85-93: self.download_dir after load_settings, which starts from the
\* default directory and reads the file `file`.  A missing file is skipped, a
\* failing json.load is swallowed; line 89 assigns the path before line 91
\* creates it, and `except: pass` swallows a failing mkdir as well.
load_settings(file) ==
    IF file.state # "json" THEN DefaultDir
    ELSE IF file.content.download_path = None THEN DefaultDir
    ELSE file.content.download_path[1]

\* Lines 65-74: _init.  The registry is a new empty dict, the executor a new
\* one with nothing queued, the directory the default and then what
\* load_settings makes of it.
DownloadManager_init ==
    /\ downloads' = <<>>
    /\ work_queue' = <<>>
    /\ download_dir' = load_settings(settings_file)
    /\ UNCHANGED <<now, heap, threads, handler, response, returned, runs,
                   emitted, settings_file, submit_dir>>

\* A variant of __new__ without the test of cls._instance: every
\* DownloadManager() builds and initialises a new instance.
DownloadManager_new_unchecked == DownloadManager_init

\* Lines 59-63: DownloadManager(), called by the __init__ of every request
\* handler (line 1704).  cls._instance is None exactly as long as _init has
\* not set self.download_dir; with an instance present the call changes
\* nothing.
DownloadManager_new ==
    /\ download_dir = NoDir
    /\ DownloadManager_init

\* Lines 97-108.  Opening settings.json for writing fails (writable FALSE)
\* and nothing changes; else the file is written, self.download_dir is
\* assigned, and mkdir decides the result.
save_settings(settings, writable, success) ==
    IF ~writable
    THEN success = FALSE /\ UNCHANGED settings_vars
    ELSE /\ settings_file' = Written(settings)
         /\ download_dir' = IF settings.download_path = None THEN download_dir
                            ELSE settings.download_path[1]
         /\ success = (download_dir' # UnusableDir)

\* Lines 1856-1879.
handle_settings(data, writable) ==
    /\ handler.pc = "idle"
    /\ \E success \in BOOLEAN :
         /\ save_settings(data, writable, success)
         /\ response' = IF success THEN 200 ELSE 500
    /\ UNCHANGED <<now, heap, downloads, work_queue, threads, handler,
                   returned, runs, emitted, submit_dir>>

----------------------------------------------------------------------------
\* GET /api/download/<id>: get_download_status.

\* A variant that falls back to the most recent job for an unknown ID.
get_download_fallback(download_id) ==
    IF HasKey(downloads, download_id) THEN DictGet(downloads, download_id)
    ELSE IF downloads # <<>> THEN downloads[Len(downloads)].ref
    ELSE EmptyDict

\* self.downloads.get(download_id, {}): the dict itself, or a fresh {}.
get_download(download_id) ==
    IF HasKey(downloads, download_id) THEN DictGet(downloads, download_id)
    ELSE EmptyDict

\* list(self.downloads.values()): the dicts in the order of the registry.
get_all_downloads == [i \in 1..Len(downloads) |-> downloads[i].ref]

\* Line 1884.
HandlerGet(download_id) ==
    /\ handler.pc = "idle"
    /\ handler' = [pc |-> "l1886", download_id |-> download_id,
                   download |-> get_download(download_id)]
    /\ response' = NoResponse
    /\ UNCHANGED <<now, emitted, heap, downloads, work_queue, threads,
                   returned, runs>>
    /\ UNCHANGED <<settings_vars, submit_dir>>

\* What json.dumps(download) reads when the response body is written.
Observed == heap[handler.download]

\* Lines 1886-1890: 404 for a falsy result, else 200 with the dict as JSON.
HandlerRespond ==
    /\ handler.pc = "l1886"
    /\ response' = IF handler.download = EmptyDict THEN 404 ELSE 200
    /\ handler' = NoRequest
    /\ UNCHANGED <<now, emitted, heap, downloads, work_queue, threads,
                   returned, runs>>
    /\ UNCHANGED <<settings_vars, submit_dir>>

----------------------------------------------------------------------------
\* The operations of a worker thread whose frame is f, but for the hook.
WorkerStep(f) ==
    \/ \E found \in BOOLEAN : EngineReturn(f, found)
    \/ \E msg \in ExcMessages : EngineRaise(f, msg)
    \/ WorkerCompleted(f)
    \/ WorkerProgress100(f)
    \/ WorkerCompletedAt(f)
    \/ WorkerErrorMessage(f)
    \/ WorkerErrorAt(f)

\* The progress hook, called by the engine on the worker's thread.
HookStep(f) ==
    \/ \E d \in Events : HookCall(f, d)
    \/ HookDownloaded(f)
    \/ HookTotal(f)
    \/ HookSpeed(f)
    \/ HookEta(f)

\* At most MaxJobs download requests are explored.
Post ==
    /\ Len(heap) < MaxJobs
    /\ \E url \in Urls, format_id \in FormatIds, filename \in Filenames :
         handle_download(url, format_id, filename)

Poll ==
    \/ \E download_id \in Keys(downloads) \cup {UnknownId} :
         HandlerGet(download_id)
    \/ HandlerRespond

Next ==
    \/ Post
    \/ Poll
    \/ WorkerStart
    \/ \E f \in BagToSet(threads) : WorkerStep(f) \/ HookStep(f)

Spec == Init /\ [][Next]_vars

\* The runs in which the engine reports no progress: every operation but the
\* hook.
NextNoProgress ==
    \/ Post
    \/ Poll
    \/ WorkerStart
    \/ \E f \in BagToSet(threads) : WorkerStep(f)

SpecNoProgress == Init /\ [][NextNoProgress]_vars

\* A burst of one request more than the pool has threads, served by an engine
\* that returns at once and leaves its file: no progress, no failure, no
\* status poll.
PostBurst ==
    /\ Len(heap) < MAX_WORKERS + 1
    /\ \E filename \in Filenames : handle_download("v", "18", filename)

NextBurst ==
    \/ PostBurst
    \/ WorkerStart
    \/ \E f \in BagToSet(threads) :
         \/ EngineReturn(f, TRUE)
         \/ WorkerCompleted(f)
         \/ WorkerProgress100(f)
         \/ WorkerCompletedAt(f)

SpecBurst == Init /\ [][NextBurst]_vars

\* The requests themselves: every combination of url, format_id and filename,
\* the empty ones included, served by an engine that returns at once.
PostRequest ==
    /\ Len(heap) < MaxJobs
    /\ \E url \in Urls, format_id \in FormatIds,
          filename \in RequestFilenames :
         handle_download(url, format_id, filename)

NextRequests ==
    \/ PostRequest
    \/ WorkerStart
    \/ \E f \in BagToSet(threads) :
         \/ \E found \in BOOLEAN : EngineReturn(f, found)
         \/ WorkerCompleted(f)
         \/ WorkerProgress100(f)
         \/ WorkerCompletedAt(f)

SpecRequests == Init /\ [][NextRequests]_vars

\* One download whose engine reports its progress with the events of
\* ProgressEvents and then returns.
PostOne ==
    /\ heap = <<>>
    /\ \E filename \in Filenames : handle_download("v", "18", filename)

NextProgress ==
    \/ PostOne
    \/ WorkerStart
    \/ \E f \in BagToSet(threads) :
         \/ \E d \in ProgressEvents : HookCallProgress(f, d)
         \/ HookDownloaded(f)
         \/ HookTotal(f)
         \/ HookSpeed(f)
         \/ HookEta(f)
         \/ EngineReturn(f, TRUE)
         \/ WorkerCompleted(f)
         \/ WorkerProgress100(f)
         \/ WorkerCompletedAt(f)

SpecProgress == Init /\ [][NextProgress]_vars

\* The engine never returns: every started worker stays inside ydl.download
\* while requests go on being served.
NextStalled ==
    \/ PostBurst
    \/ Poll
    \/ WorkerStart

SpecStalled == Init /\ [][NextStalled]_vars

\* Requests for two urls, one more than MaxJobs of them, served by an engine
\* that returns at once.
PostListing ==
    /\ Len(heap) < MaxJobs + 1
    /\ \E url \in ListingUrls, filename \in Filenames :
         handle_download(url, "18", filename)

NextListing ==
    \/ PostListing
    \/ WorkerStart
    \/ \E f \in BagToSet(threads) :
         \/ EngineReturn(f, TRUE)
         \/ WorkerCompleted(f)
         \/ WorkerProgress100(f)
         \/ WorkerCompletedAt(f)

SpecListing == Init /\ [][NextListing]_vars

\* The settings: the manager is constructed over any settings.json, settings
\* are saved while downloads are queued and running; the engine returns at
\* once.
InitSettings ==
    /\ now = 0
    /\ heap = <<>>
    /\ downloads = <<>>
    /\ work_queue = <<>>
    /\ threads = EmptyBag
    /\ handler = NoRequest
    /\ response = NoResponse
    /\ returned = <<>>
    /\ runs = <<>>
    /\ emitted = 0
    /\ download_dir = NoDir
    /\ settings_file \in SettingsFiles
    /\ submit_dir = <<>>

PostSave ==
    \E data \in SettingsBodies, writable \in BOOLEAN :
       handle_settings(data, writable)

NextSettings ==
    \/ DownloadManager_new
    \/ /\ download_dir # NoDir
       /\ \/ PostSave
          \/ Post
          \/ WorkerStart
          \/ \E f \in BagToSet(threads) :
               \/ \E found \in BOOLEAN : EngineReturn(f, found)
               \/ WorkerCompleted(f)
               \/ WorkerProgress100(f)
               \/ WorkerCompletedAt(f)

SpecSettings == InitSettings /\ [][NextSettings]_vars

\* One download under every filename of NamedFilenames, served by an engine
\* that returns at once.
PostNamed ==
    /\ heap = <<>>
    /\ \E filename \in NamedFilenames : handle_download("v", "18", filename)

NextFilenames ==
    \/ PostNamed
    \/ WorkerStart
    \/ \E f \in BagToSet(threads) :
         \/ \E found \in BOOLEAN : EngineReturn(f, found)
         \/ WorkerCompleted(f)
         \/ WorkerProgress100(f)
         \/ WorkerCompletedAt(f)

SpecFilenames == Init /\ [][NextFilenames]_vars

\* The manager and its requests: every request handler calls DownloadManager()
\* before it serves its request; downloads are started, polled and left
\* running, and settings are saved.
NextSingleton ==
    \/ DownloadManager_new
    \/ /\ download_dir # NoDir
       /\ \/ PostSave
          \/ Post
          \/ Poll
          \/ WorkerStart

SpecSingleton == InitSettings /\ [][NextSingleton]_vars

----------------------------------------------------------------------------
\* Vocabulary of the properties.

Terminal(status) == status \in {"completed", "error"}
Handles == 1..Len(heap)
\* Some thread is running _download_worker with dict h as its `download`.
Busy(h) == \E f \in BagToSet(threads) : f.download = h
\* Nothing is waiting in the executor and no thread is busy.
Quiescent == work_queue = <<>> /\ threads = EmptyBag
\* The dicts reachable through get_download.
Registered == {downloads[i].ref : i \in 1..Len(downloads)}
\* The frames of the threads that take the step: those that leave the bag or
\* join it.
Moved ==
    {f \in BagToSet(threads) \cup BagToSet(threads') :
        CopiesIn(f, threads) # CopiesIn(f, threads')}
\* The step is one of the hook: the call (an event is consumed) or one of the
\* stores of lines 203-206.
HookMoves ==
    \/ emitted' # emitted
    \/ \E f \in BagToSet(threads) :
         /\ f.pc \in {"l203", "l204", "l205", "l206"}
         /\ CopiesIn(f, threads') < CopiesIn(f, threads)

----------------------------------------------------------------------------
\* C1: the status of a job dict only moves queued -> downloading ->
\* completed or error: no step changes a completed or error status, and no
\* step changes downloading back to queued.
C1_StatusOneWay ==
    [][\A h \in Handles :
         /\ Terminal(heap[h].status) => heap'[h].status = heap[h].status
         /\ heap[h].status = "downloading" => heap'[h].status # "queued"]_vars

\* C2: any two start_download calls return different job IDs.
C2_DistinctIds ==
    \A i, j \in 1..Len(returned) : i # j => returned[i] # returned[j]

\* C3: when more jobs are submitted than the pool has threads, no job dict is
\* executed by two worker runs, and once nothing is waiting or running every
\* job dict has been executed (none is left queued).
C3_EveryJobRunsOnce ==
    Len(heap) > MAX_WORKERS =>
        /\ \A h \in Handles : runs[h] <= 1
        /\ Quiescent =>
             \A h \in Handles : runs[h] = 1 /\ heap[h].status # "queued"

\* C4: in every state a reader can observe through get_download,
\* completed_at is set if and only if status is completed or error, and a set
\* completed_at never changes.
C4_CompletedAtIffTerminal ==
    [][/\ \A h \in Registered' :
            heap'[h].completed_at # None <=> Terminal(heap'[h].status)
       /\ \A h \in Handles :
            heap[h].completed_at # None
                => heap'[h].completed_at = heap[h].completed_at]_vars

\* C5: a job whose engine call raised ends with status error, a non-empty
\* error message and a set completed_at, whatever was raised.
C5_FailedJobHasMessage ==
    \A h \in Handles :
        (heap[h].status = "error" /\ ~Busy(h)) =>
            /\ heap[h].error # None
            /\ heap[h].error # Some("")
            /\ heap[h].completed_at # None

\* C6: a failure is isolated.  The step that moves a job dict to error
\* changes nothing but that dict's status: no other dict, not the registry,
\* not the queue, and its thread stays in the pool; the step that ends the
\* failed task gives the thread back; and after a failure a waiting task is
\* still taken whenever a thread is free.
C6_FailureIsolated ==
    [][/\ \A h \in Handles :
            (heap[h].status # "error" /\ heap'[h].status = "error") =>
                /\ heap' = [heap EXCEPT ![h].status = "error"]
                /\ downloads' = downloads
                /\ work_queue' = work_queue
                /\ BagCardinality(threads') = BagCardinality(threads)
       /\ \A f \in BagToSet(threads) :
            (f.pc = "l187" /\ CopiesIn(f, threads') < CopiesIn(f, threads)) =>
                /\ threads' = threads (-) SetToBag({f})
                /\ work_queue' = work_queue
                /\ downloads' = downloads
                /\ \A g \in Handles : g # f.download => heap'[g] = heap[g]
       /\ (\E h \in Handles : heap[h].status = "error") =>
            /\ BagCardinality(threads) <= Cardinality(Handles)
            /\ (work_queue # <<>> /\ BagCardinality(threads) < MAX_WORKERS)
                 => ENABLED WorkerStart]_vars

\* C6's case: a job failed, and a job submitted later has run to completed.
C6_Witness ==
    \E h, g \in Handles :
        /\ heap[h].status = "error"
        /\ heap[h].completed_at = Some(0)
        /\ heap[g].started_at = 1
        /\ heap[g].status = "completed"
        /\ ~Busy(g)

\* C7: every failure raised inside a download task is written into the dict
\* as a terminal status: a dict that a worker run has taken and that no
\* worker is running any more is completed or error, never queued or
\* downloading; and the failure reaches no request handler (the response and
\* the handler are as they were).
C7_FailureCaptured ==
    /\ \A h \in Handles :
         (runs[h] > 0 /\ ~Busy(h)) => Terminal(heap[h].status)
    /\ response \in {NoResponse, 200, 400, 404}

\* C7's case: a task whose engine call raised has ended.
C7_Witness ==
    \E h \in Handles :
        /\ runs[h] = 1
        /\ ~Busy(h)
        /\ heap[h].status = "error"
        /\ heap[h].error # None

\* C8: the value get_download returned does not change while the caller
\* holds it, whatever the workers do meanwhile.
C8_SnapshotCopy ==
    [][(/\ handler.pc = "l1886"
        /\ handler' = handler
        /\ handler.download # EmptyDict)
          => heap'[handler.download] = heap[handler.download]]_vars

\* A dict as it stands after a whole update: creation, one complete progress
\* event, or one complete terminal transition.
WholeUpdate(r) ==
    /\ r.status = "completed" => r.progress = 100 /\ r.completed_at # None
    /\ r.status = "error" => r.error # None /\ r.completed_at # None
    /\ \/ /\ r.downloaded_bytes = 0 /\ r.total_bytes = Some(0)
          /\ r.speed = Some(0) /\ r.eta = None
          /\ r.progress \in {0, 100}
       \/ \E d \in Events :
            /\ d.status = "downloading"
            /\ r.downloaded_bytes = d.downloaded_bytes
            /\ r.total_bytes = EffectiveTotal(d)
            /\ r.speed = d.speed
            /\ r.eta = d.eta
            /\ r.progress \in {HookProgress(d, 0), HookProgress(d, 10),
                               HookProgress(d, 50), 100}

\* C9: what a reader observes of a dict is the dict after a whole update,
\* never a mix of two updates.
C9_NoTornRead ==
    (handler.pc = "l1886" /\ handler.download # EmptyDict)
        => WholeUpdate(Observed)

\* C10: get_download with an ID that start_download never returned yields
\* the empty result, never a job dict, and the handler answers it with 404;
\* neither step changes the registry or any dict.
C10_UnknownIdNotFound ==
    [][/\ (/\ handler.pc = "idle"
           /\ handler'.pc = "l1886"
           /\ \A i \in 1..Len(returned) : returned[i] # handler'.download_id)
             => /\ handler'.download = EmptyDict
                /\ heap' = heap
                /\ downloads' = downloads
       /\ (/\ handler.pc = "l1886"
           /\ handler'.pc = "idle"
           /\ \A i \in 1..Len(returned) : returned[i] # handler.download_id)
             => /\ response' = 404
                /\ heap' = heap
                /\ downloads' = downloads]_vars

\* C10's case: an unknown ID was looked up while jobs were registered, and
\* answered.
C10_Witness ==
    /\ response = 404
    /\ downloads # <<>>
    /\ handler.pc = "idle"

\* C11: every ID that start_download returned is found by get_download from
\* then on, in a dict whose id is that ID and whose url, format_id and
\* filename are those passed to the call that returned it (heap[i] is the
\* dict the i-th call built from its arguments); a dict is created with
\* status queued, and no step changes the id, url, format_id or filename of a
\* dict.
C11_RecordKeepsInputs ==
    [][/\ \A h \in Handles :
            /\ heap'[h].id = heap[h].id
            /\ heap'[h].url = heap[h].url
            /\ heap'[h].format_id = heap[h].format_id
            /\ heap'[h].filename = heap[h].filename
       /\ \A h \in (1..Len(heap')) \ Handles : heap'[h].status = "queued"
       /\ \A i \in 1..Len(returned') :
            /\ HasKey(downloads', returned'[i])
            /\ LET r == heap'[DictGet(downloads', returned'[i])]
               IN  /\ r.id = returned'[i]
                   /\ r.url = heap'[i].url
                   /\ r.format_id = heap'[i].format_id
                   /\ r.filename = heap'[i].filename]_vars

\* C12: the registry has as many entries as start_download calls have
\* returned, and no step removes or replaces an entry.
C12_OneEntryPerCall ==
    [][/\ Len(downloads') = Len(returned')
       /\ \A i \in 1..Len(downloads) :
            i <= Len(downloads') /\ downloads'[i] = downloads[i]]_vars

\* C13: once completed_at, error or filepath of a dict holds a value, no
\* step stores into it again (the value stays as it is).
C13_WriteOnce ==
    [][\A h \in Handles :
         /\ heap[h].completed_at # None
              => heap'[h].completed_at = heap[h].completed_at
         /\ heap[h].error # None => heap'[h].error = heap[h].error
         /\ heap[h].filepath # None
              => heap'[h].filepath = heap[h].filepath]_vars

\* C14: the progress of every dict is within 0..100 in every state, also
\* after an event whose downloaded_bytes exceed its (estimated) total.
C14_ProgressInRange ==
    \A h \in Handles : heap[h].progress >= 0 /\ heap[h].progress <= 100

\* C15: a hook call with an event that carries neither a total nor an
\* estimate (absent or zero) stores min(previous progress + 10, 90), which is
\* at most 90.
C15_UnknownTotalStep ==
    [][\A f \in BagToSet(threads) : \A g \in BagToSet(threads') :
         (/\ f.pc = "l170"
          /\ g.pc = "l203"
          /\ CopiesIn(f, threads') < CopiesIn(f, threads)
          /\ CopiesIn(g, threads') > CopiesIn(g, threads)
          /\ g.d.total_bytes \in {None, Some(0)}
          /\ g.d.total_bytes_estimate \in {None, Some(0)})
            => LET h == g.hook_download
                   previous == heap[h].progress
               IN  /\ heap'[h].progress =
                        (IF previous + 10 < 90 THEN previous + 10 ELSE 90)
                   /\ heap'[h].progress <= 90]_vars

\* C15's case: after an event that left progress 85 (17 of 20 bytes), an
\* event without total has been delivered and progress stands at 90.
C15_Witness ==
    \E f \in BagToSet(threads) :
        /\ f.pc = "l203"
        /\ f.d.total_bytes = None
        /\ f.d.total_bytes_estimate = None
        /\ heap[f.hook_download].downloaded_bytes = 17
        /\ heap[f.hook_download].total_bytes = Some(20)
        /\ heap[f.hook_download].progress = 90

\* C16: while the status of a dict is downloading, a progress event whose
\* downloaded_bytes are not below those recorded does not lower progress.
C16_ProgressMonotonic ==
    [][\A h \in Handles :
         (/\ heap[h].status = "downloading"
          /\ heap'[h].status = "downloading"
          /\ \A g \in BagToSet(threads') :
               (g.pc = "l203" /\ g.hook_download = h)
                 => g.d.downloaded_bytes >= heap[h].downloaded_bytes)
            => heap'[h].progress >= heap[h].progress]_vars

\* C17: a total_bytes, speed or eta recorded from an event (not None, and
\* not the 0 of the dict literal) is never replaced by None.
C17_SparseUpdateKeeps ==
    [][\A h \in Handles :
         /\ heap[h].total_bytes \notin {None, Some(0)}
              => heap'[h].total_bytes # None
         /\ heap[h].speed \notin {None, Some(0)} => heap'[h].speed # None
         /\ heap[h].eta # None => heap'[h].eta # None]_vars

\* C18: a dict that stands completed with no run on it any more has progress
\* 100, a set completed_at and no error, and its filepath is either None or a
\* file named by the safe filename of its filename.
C18_CompletedRecord ==
    \A h \in Handles :
        (heap[h].status = "completed" /\ ~Busy(h)) =>
            /\ heap[h].progress = 100
            /\ heap[h].completed_at # None
            /\ heap[h].error = None
            /\ \/ heap[h].filepath = None
               \/ \E t \in 0..MaxClock, dir \in Dirs :
                    heap[h].filepath =
                        Some(<<dir>> \o SafeFilename(heap[h].filename, t))

\* C19: a request is answered 400 without a change to the registry, the
\* queue or any dict, and no job is created from a request whose url,
\* format_id or filename is empty.
C19_EmptyFieldRejected ==
    [][/\ (response # 400 /\ response' = 400)
            => /\ downloads' = downloads
               /\ work_queue' = work_queue
               /\ heap' = heap
       /\ \A h \in (1..Len(heap')) \ Handles :
            /\ heap'[h].url # ""
            /\ heap'[h].format_id # ""
            /\ heap'[h].filename # <<>>]_vars

\* C19 as amended: a request is answered 400 without a change to the
\* registry, the queue or any dict, and no job is created from a request
\* whose url or format_id is empty.
C19_EmptyUrlOrFormatRejected ==
    [][/\ (response # 400 /\ response' = 400)
            => /\ downloads' = downloads
               /\ work_queue' = work_queue
               /\ heap' = heap
       /\ \A h \in (1..Len(heap')) \ Handles :
            /\ heap'[h].url # ""
            /\ heap'[h].format_id # ""]_vars

\* C19's case: a request was rejected after a job had been created from a
\* request with an empty filename, and registry and queue still hold it.
C19_Witness ==
    /\ response = 400
    /\ Len(downloads) = 1
    /\ heap[1].filename = <<>>
    /\ work_queue = <<heap[1].id>>

\* C20: never more than MAX_WORKERS tasks are executing; a dict that is not
\* completed or error and that no thread is executing has status queued, and
\* if it is in the registry a task for its ID is waiting in the queue.
C20_PoolBound ==
    /\ BagCardinality(threads) <= MAX_WORKERS
    /\ \A h \in Handles :
         (~Terminal(heap[h].status) /\ ~Busy(h)) =>
            /\ heap[h].status = "queued"
            /\ h \in Registered =>
                 \E i \in 1..Len(work_queue) : work_queue[i] = heap[h].id

\* C20's case: more jobs than threads: every thread is executing and a job
\* waits with status queued.
C20_Witness ==
    /\ BagCardinality(threads) = MAX_WORKERS
    /\ work_queue # <<>>
    /\ \E h \in Registered : heap[h].status = "queued" /\ ~Busy(h)

\* C21: the number of jobs being executed (counted by their IDs, so that
\* two tasks with one ID count once) never exceeds max_concurrent_downloads
\* of the settings on disk (loaded at construction or saved since), or of the
\* default settings when the file holds none.
C21_SettingsLimit ==
    Cardinality({f.download_id : f \in BagToSet(threads)}) <=
        (IF settings_file.state = "json"
         THEN settings_file.content.max_concurrent_downloads
         ELSE DefaultMaxConcurrent)

\* C22: tasks are taken in submission order: the waiting tasks are always
\* the last ones submitted (a suffix of the IDs returned, in call order), and
\* a thread that starts takes the task at the head of the queue.
C22_SubmissionOrder ==
    [][/\ \E k \in 0..Len(returned') :
            work_queue' = SubSeq(returned', k + 1, Len(returned'))
       /\ BagCardinality(threads') > BagCardinality(threads) =>
            /\ work_queue # <<>>
            /\ work_queue' = Tail(work_queue)
            /\ \A g \in Moved : g.download_id = Head(work_queue)]_vars

\* C22's case: of two jobs with different IDs the first has been started
\* while the second waits.
C22_Witness ==
    /\ Len(returned) = 2
    /\ returned[1] # returned[2]
    /\ work_queue = <<returned[2]>>
    /\ runs[1] = 1
    /\ heap[2].status = "queued"

\* C23: whatever the workers do, a request can be served: with the main
\* thread idle every download request and every status lookup can be taken,
\* a lookup under way can be answered, get_all_downloads has a value; and a
\* start_download that returns an ID leaves its task waiting (the dict
\* queued, no thread started by the call).
C23_NeverBlocked ==
    [][/\ handler.pc = "idle" =>
            /\ \A url \in Urls, format_id \in FormatIds,
                  filename \in Filenames :
                 ENABLED handle_download(url, format_id, filename)
            /\ \A download_id \in Keys(downloads) \cup {UnknownId} :
                 ENABLED HandlerGet(download_id)
       /\ handler.pc = "l1886" => ENABLED HandlerRespond
       /\ Len(get_all_downloads) = Len(downloads)
       /\ Len(returned') > Len(returned) =>
            /\ threads' = threads
            /\ work_queue' = Append(work_queue, returned'[Len(returned')])
            /\ heap'[Len(heap')].status = "queued"]_vars

\* C23's case: every worker thread is inside the engine, a further job
\* waits, and a lookup of the waiting job has returned its dict.
C23_Witness ==
    /\ BagCardinality(threads) = MAX_WORKERS
    /\ \A f \in BagToSet(threads) : f.pc = "l170"
    /\ work_queue # <<>>
    /\ handler.pc = "l1886"
    /\ handler.download # EmptyDict
    /\ heap[handler.download].status = "queued"

\* C24: a job writes to, and has its file looked up in, the directory that
\* was active when it was submitted, whatever successful save_settings came
\* in between (a directory other than UnusableDir was set by the load or by
\* a successful save).
C24_DirectoryOfSubmission ==
    /\ \A f \in BagToSet(threads) :
         f.outtmpl_dir # UnusableDir
            => f.outtmpl_dir = submit_dir[f.download]
    /\ \A h \in Handles :
         (heap[h].filepath # None /\ heap[h].filepath[1][1] # UnusableDir)
            => heap[h].filepath[1][1] = submit_dir[h]

\* C25: load_settings always completes, and when settings.json is missing,
\* is not JSON or names an unusable download_path, the directory after
\* construction is the default directory.
C25_LoadFallsBack ==
    [][/\ download_dir = NoDir => ENABLED DownloadManager_new
       /\ (/\ download_dir = NoDir
           /\ download_dir' # NoDir
           /\ \/ settings_file.state # "json"
              \/ settings_file.content.download_path = Some(UnusableDir))
            => download_dir' = DefaultDir]_vars

\* C26: get_all_downloads lists every dict of the registry once, in the
\* order in which start_download created them.
C26_ListInInsertionOrder ==
    /\ Len(get_all_downloads) = Cardinality(Registered)
    /\ \A i, j \in 1..Len(get_all_downloads) :
         i < j => get_all_downloads[i] < get_all_downloads[j]

\* C27: a step that changes an existing dict is taken by a thread that runs
\* _download_worker on that dict, and no dict is taken by two worker runs.
C27_SingleWriter ==
    [][\A h \in Handles :
         /\ heap'[h] # heap[h] => \A f \in Moved : f.download = h
         /\ runs'[h] <= 1]_vars

\* C28: a step of the progress hook changes progress, downloaded_bytes,
\* total_bytes, speed and eta only of dicts whose status is downloading.
C28_HookOnlyWhileDownloading ==
    [][HookMoves =>
         \A h \in Handles :
            heap[h].status # "downloading" =>
               /\ heap'[h].progress = heap[h].progress
               /\ heap'[h].downloaded_bytes = heap[h].downloaded_bytes
               /\ heap'[h].total_bytes = heap[h].total_bytes
               /\ heap'[h].speed = heap[h].speed
               /\ heap'[h].eta = heap[h].eta]_vars

\* C29: in every state, a dict of the registry whose filepath is set has
\* status completed.
C29_FilepathOnlyCompleted ==
    \A h \in Registered :
        heap[h].filepath # None => heap[h].status = "completed"

\* C30: a hook call computes progress from total_bytes when it is present
\* and greater than 0, else from total_bytes_estimate when that is present
\* (and greater than 0): the progress stored is 100 * downloaded_bytes over
\* that total.
C30_EffectiveTotal ==
    [][\A g \in Moved :
         (g.pc = "l203" /\ emitted' # emitted) =>
            LET d == g.d
                total ==
                    IF d.total_bytes # None /\ d.total_bytes[1] > 0
                    THEN d.total_bytes
                    ELSE IF d.total_bytes_estimate # None
                            /\ d.total_bytes_estimate[1] > 0
                    THEN d.total_bytes_estimate
                    ELSE None
            IN  total # None =>
                  heap'[g.hook_download].progress =
                      (d.downloaded_bytes * 100) \div total[1]]_vars

\* C32: whenever save_settings returns False (the request is answered 500)
\* the active directory is what it was before the call.
C32_FailedSaveKeepsDirectory ==
    [][(download_dir # NoDir /\ response' = 500)
          => download_dir' = download_dir]_vars

\* C34: in every state, a dict whose error is set has status error.
C34_ErrorOnlyInError ==
    \A h \in Handles : heap[h].error # None => heap[h].status = "error"

\* C35: there is one manager for all requests: once it exists no step builds
\* it anew, so the registry and the pool are never reset: every ID that
\* start_download has returned stays in the registry, a registered dict that
\* is still queued has its task waiting in the pool, and the directory
\* changes only by a save (which answers the request).
C35_Singleton ==
    [][/\ download_dir # NoDir => download_dir' # NoDir
       /\ \A i \in 1..Len(returned') : HasKey(downloads', returned'[i])
       /\ \A i \in 1..Len(downloads') :
            heap'[downloads'[i].ref].status = "queued" =>
               \E k \in 1..Len(work_queue') :
                  work_queue'[k] = downloads'[i].key
       /\ (download_dir # NoDir /\ download_dir' # download_dir)
            => settings_file' = Written(settings_file'.content)
               /\ response' \in {200, 500}]_vars

\* C35's case: the manager was built over a settings file naming another
\* directory, and two later requests started jobs that are both in the
\* registry, one running and one waiting.
C35_Witness ==
    /\ download_dir = "d1"
    /\ Len(returned) = 2
    /\ returned[1] # returned[2]
    /\ HasKey(downloads, returned[1])
    /\ HasKey(downloads, returned[2])
    /\ work_queue = <<returned[2]>>
    /\ BagCardinality(threads) = 1

\* C33: a call of the hook with an event whose status is not 'downloading'
\* changes no field of any dict and does not touch the registry.
C33_OtherStatusChangesNothing ==
    [][\A f \in BagToSet(threads), d \in ProgressEvents :
          (d.status # "downloading" /\ HookCallProgress(f, d))
             => /\ heap' = heap
                /\ downloads' = downloads]_vars

\* C33's case: the engine has called the hook once, with an event that was not
\* 'downloading' (the worker holds no event), and the dict is as the worker
\* left it at line 141.
C33_Witness ==
    /\ emitted = 1
    /\ \E f \in BagToSet(threads) :
          /\ f.pc = "l170"
          /\ f.d = NoEvent
          /\ heap[f.download].status = "downloading"
          /\ heap[f.download].progress = 0
          /\ heap[f.download].downloaded_bytes = 0

\* C31: the safe filename of every running worker is not empty and has no
\* path separator; it consists of letters, digits, spaces, hyphens,
\* underscores and periods only, unless nothing of the job's filename
\* remained (every character was dropped or was a space), and exactly then it
\* is download_<time> for a time read no later than now; the output template
\* built from it is one component directly below the directory read at
\* line 155.
C31_SafeFilename ==
    \A f \in BagToSet(threads) :
       LET filename == heap[f.download].filename
           safe == {"a", "b", "c", "0", "1", " ", "-", "_", "."}
           nothing == \A i \in 1..Len(filename) :
                         filename[i] \notin safe \/ filename[i] = " "
       IN  /\ f.safe_filename # <<>>
           /\ \A i \in 1..Len(f.safe_filename) : f.safe_filename[i] # "/"
           /\ IF nothing
              THEN \E t \in 0..now :
                      f.safe_filename = <<"download_", ToString(t)>>
              ELSE \A i \in 1..Len(f.safe_filename) :
                      f.safe_filename[i] \in safe
           /\ Len(outtmpl(f.outtmpl_dir, f.safe_filename)) = 2
           /\ outtmpl(f.outtmpl_dir, f.safe_filename)[1] = <<f.outtmpl_dir>>

\* C31's case: the job was posted with the filename "../" and its worker
\* writes below the download directory, to "...%(ext)s".
C31_Witness ==
    \E f \in BagToSet(threads) :
       /\ heap[f.download].filename = <<".", ".", "/">>
       /\ f.safe_filename = <<".", ".">>
       /\ outtmpl(f.outtmpl_dir, f.safe_filename)
             = <<<<DefaultDir>>, <<".", ".", ".", "%(ext)s">>>>

====
